---- MODULE Spec2Model ----
(***************************************************************************)
(* Squirrel note storage: the remote backend (SupabaseStorage), the notes  *)
(* table it talks to, and the background worker that drives it.            *)
(***************************************************************************)
EXTENDS Integers, Sequences, FiniteSets, TLC

(***************************************************************************)
(* Bounds of the model.                                                    *)
(***************************************************************************)
\* SupabaseStorage.VECTOR_DIMENSIONS (1536 in the source), scaled down.
VECTOR_DIMENSIONS == 2
\* Input embeddings have 0 .. VECTOR_DIMENSIONS + MaxExtra components.
MaxExtra == 1

D == VECTOR_DIMENSIONS

\* Components of the vectors given to the normalizer.
NormVals == {-1, 0, 1}

RECURSIVE SeqsUpTo(_, _)
SeqsUpTo(S, n) ==
    IF n = 0 THEN {<<>>}
    ELSE LET shorter == SeqsUpTo(S, n - 1)
         IN  shorter \cup {Append(s, x) : s \in {t \in shorter : Len(t) = n - 1}, x \in S}

Vectors == SeqsUpTo(NormVals, D + MaxExtra)

\* Notes one table holds at most (ids are never reused).
MaxNotes == 2
\* Concurrent callers of a backend.
NumCallers == 2
\* Writing calls (saveNote, updateNote, deleteNote, clearAll) made in one run.
MaxWrites == 2
\* The store's clock runs 0 .. MaxTicks (ticks finer than a millisecond), the
\* client's clock 0 .. MaxMillis (milliseconds).
MaxTicks == 2
MaxMillis == 1
\* Store ticks per millisecond (timestamptz keeps microseconds).
TicksPerMs == 2
\* Supabase projects a configuration can name.
NumConfigs == 2
\* Messages delivered to the worker in one run.
MaxMessages == 3
\* Chat messages sent, searches issued on one page, and the page clock.
MaxChats == 2
MaxSearches == 2
MaxUiMillis == 2

\* match_threshold: 0.3 passed to match_notes, as ThresholdNum / ThresholdDen.
ThresholdNum == 3
ThresholdDen == 10
\* Default limit of searchByVector and getRecentNotes.
DefaultLimit == 10

Callers == 1..NumCallers
Contents == {"a", "b"}
\* Tags are case-sensitive strings: one in lower case, one capitalized.
Tags == {"x", "Y"}
TagSeqs == {<<>>, <<"x">>, <<"Y", "x">>, <<"x", "x">>}
Sources == {[url |-> "u1", title |-> "t1", timestamp |-> 0],
            [url |-> "u2", title |-> "t2", timestamp |-> 1]}
\* Embeddings handed to the backend: every length 0 .. D + MaxExtra.
SampleEmbeddings == SeqsUpTo({1}, D + MaxExtra) \cup {[i \in 1..D |-> IF i = D THEN 1 ELSE 0]}

\* An optional value (a field that may be undefined).
None == <<>>
Some(v) == <<v>>
IsSome(o) == Len(o) = 1
Get(o) == o[1]

VARIABLES
    normPc, normIn, normOut, normTwice, \* the normalizer on its own
    backends,   \* the SupabaseStorage objects constructed so far
    db,         \* the notes table of each Supabase project
    nextId,     \* next id each table hands out
    serverNow,  \* store clock (ticks)
    clientNow,  \* client clock, Date.now() (ms)
    calls,      \* per caller: the backend call in progress or last completed
    nwrites,    \* writing calls made so far
    config,     \* chrome.storage.sync 'config': the Supabase project selected
    instance,   \* StorageFactory's cached backend (0: none)
    discarded,  \* backends that clearInstance has dropped (history)
    tasks,      \* per task: the message being handled
    nmsgs,      \* messages delivered so far
    uiNow,      \* page clock, Date.now() (ms)
    chat,       \* the elements of #chatContainer, in document order
    asks,       \* the askQuestion messages of the chat, in the order sent
    shown,      \* per page: what the results container displays
    searches    \* per page: the searchNotes messages, in the order sent

normVars == <<normPc, normIn, normOut, normTwice>>
storeVars == <<backends, db, nextId, serverNow, clientNow, calls, nwrites>>
workerVars == <<config, instance, discarded, tasks, nmsgs>>
uiVars == <<uiNow, chat, asks, shown, searches>>
vars == <<normPc, normIn, normOut, normTwice,
          backends, db, nextId, serverNow, clientNow, calls, nwrites,
          config, instance, discarded, tasks, nmsgs,
          uiNow, chat, asks, shown, searches>>


(***************************************************************************)
(* Embedding normalizer.                                                   *)
(***************************************************************************)
\* Array.prototype.slice(start, end): elements start .. end-1 (0-based).
Slice(a, start, end) ==
    LET e == IF end > Len(a) THEN Len(a) ELSE end
    IN  SubSeq(a, start + 1, e)

\* Mutant: the padding loop runs once too often.
RECURSIVE PadZerosOnceMore(_)
PadZerosOnceMore(normalized) ==
    IF Len(normalized) <= VECTOR_DIMENSIONS
    THEN PadZerosOnceMore(Append(normalized, 0))
    ELSE normalized

\* while (normalized.length < VECTOR_DIMENSIONS) normalized.push(0)
RECURSIVE PadZeros(_)
PadZeros(normalized) ==
    IF Len(normalized) < VECTOR_DIMENSIONS
    THEN PadZeros(Append(normalized, 0))
    ELSE normalized

\* Mutant: truncation keeps the last D components instead of the first.
TruncateTail(embedding) ==
    Slice(embedding, Len(embedding) - VECTOR_DIMENSIONS, Len(embedding))

Truncate(embedding) ==
    Slice(embedding, 0, VECTOR_DIMENSIONS)

normalizeEmbedding(embedding) ==
    IF Len(embedding) = VECTOR_DIMENSIONS THEN embedding
    ELSE IF Len(embedding) > VECTOR_DIMENSIONS THEN Truncate(embedding)
    ELSE PadZeros(embedding)

(***************************************************************************)
(* The notes table (README: create table notes, match_notes) as the        *)
(* requests of the backend see it.  A table is a function from the ids it  *)
(* holds to rows; a reply is [error, data], data a sequence of rows.       *)
(***************************************************************************)
NoError == "none"
RowNotFound == "PGRST116"       \* .single() found no row
StoreFailure == "failure"       \* connectivity, permissions, ...
DimensionMismatch == "22000"    \* vector(D) column given another length
UniqueViolation == "23505"      \* primary key given to a second row

Reply(error, data) == [error |-> error, data |-> data]

RECURSIVE Dot(_, _)
Dot(a, b) ==
    IF Len(a) = 0 \/ Len(b) = 0 THEN 0
    ELSE Head(a) * Head(b) + Dot(Tail(a), Tail(b))

\* Mutant: match_notes has no where clause.
SimilarityUnfiltered(e, q) == TRUE

\* 1 - (embedding <=> query_embedding) > match_threshold, on integer vectors;
\* a zero vector has no cosine (NaN) and passes no comparison.
SimilarityAbove(e, q) ==
    /\ Dot(e, q) > 0
    /\ ThresholdDen * ThresholdDen * Dot(e, q) * Dot(e, q)
         > ThresholdNum * ThresholdNum * Dot(e, e) * Dot(q, q)

\* e1 is at least as similar to q as e2 is (both with a positive cosine).
AtLeastAsSimilar(e1, e2, q) ==
    Dot(e1, q) * Dot(e1, q) * Dot(e2, e2) >= Dot(e2, q) * Dot(e2, q) * Dot(e1, e1)

\* The sequences that list every id of S once.
RECURSIVE Orderings(_)
Orderings(S) ==
    IF S = {} THEN {<<>>}
    ELSE UNION {{<<i>> \o s : s \in Orderings(S \ {i})} : i \in S}

Take(s, n) == IF n >= Len(s) THEN s ELSE SubSeq(s, 1, IF n < 0 THEN 0 ELSE n)

\* A vector column in a response body: the type has no JSON form of its own,
\* so the column comes as its text, '[1,0]', which the client receives as a
\* string.
VectorToJson(v) == [type |-> "string", value |-> v]

\* A row as the response body holds it.
ToJson(row) == [row EXCEPT !.embedding = VectorToJson(@)]

RowsOf(t, ids) == [k \in 1..Len(ids) |-> ToJson(t[ids[k]])]

\* Mutant: order by created_at, ascending.
OldestFirst(t) ==
    {s \in Orderings(DOMAIN t) :
        \A j, k \in 1..Len(s) : j < k => t[s[j]].created_at <= t[s[k]].created_at}

\* order by created_at desc: ties come in any order.
NewestFirst(t) ==
    {s \in Orderings(DOMAIN t) :
        \A j, k \in 1..Len(s) : j < k => t[s[j]].created_at >= t[s[k]].created_at}

\* match_notes: where similarity > threshold order by distance limit count.
MatchNotes(t, q, count) ==
    LET hits == {i \in DOMAIN t : SimilarityAbove(t[i].embedding, q)}
    IN  {Take(s, count) : s \in
            {o \in Orderings(hits) :
                \A j, k \in 1..Len(o) : j < k =>
                    AtLeastAsSimilar(t[o[j]].embedding, t[o[k]].embedding, q)}}

\* The request body names the column and gives it a value.
Names(set, column) == column \in DOMAIN set /\ IsSome(set[column])

\* update notes set <fields given> where id = ...: a field left out of the
\* request body keeps its value.
ApplyUpdate(row, set) ==
    [row EXCEPT !.content = IF IsSome(set.content) THEN Get(set.content) ELSE @,
                !.embedding = IF IsSome(set.embedding) THEN Get(set.embedding) ELSE @,
                !.tags = IF IsSome(set.tags) THEN Get(set.tags) ELSE @,
                !.source = IF IsSome(set.source) THEN Get(set.source) ELSE @,
                !.updated_at = IF IsSome(set.updated_at) THEN Get(set.updated_at) ELSE @,
                !.id = IF Names(set, "id") THEN Get(set.id) ELSE @,
                !.created_at = IF Names(set, "created_at") THEN Get(set.created_at) ELSE @]

\* Mutant: the id generator hands out the id it handed out before.
NextIdRepeats(nid) == nid

\* id uuid default uuid_generate_v4(): after an insert the generator holds an
\* id that no row has had.
NextId(nid) == nid + 1

\* The outcomes [table, nextId, reply] of one request on table t at store time now.
StoreExec(t, nid, now, req) ==
    CASE req.kind = "insert" ->
           IF Len(req.row.embedding) # D
           THEN {[table |-> t, nextId |-> nid, reply |-> Reply(DimensionMismatch, <<>>)]}
           ELSE IF nid \in DOMAIN t
           THEN {[table |-> t, nextId |-> nid, reply |-> Reply(UniqueViolation, <<>>)]}
           ELSE LET row == [id |-> nid, content |-> req.row.content,
                            embedding |-> req.row.embedding, tags |-> req.row.tags,
                            source |-> req.row.source,
                            created_at |-> now, updated_at |-> now]
                    t2 == [i \in DOMAIN t \cup {nid} |-> IF i = nid THEN row ELSE t[i]]
                IN  {[table |-> t2, nextId |-> NextId(nid), reply |-> Reply(NoError, <<ToJson(row)>>)]}
      [] req.kind = "select_single" ->
           {[table |-> t, nextId |-> nid,
             reply |-> IF req.id \in DOMAIN t THEN Reply(NoError, <<ToJson(t[req.id])>>)
                       ELSE Reply(RowNotFound, <<>>)]}
      [] req.kind = "select_all" ->
           {[table |-> t, nextId |-> nid, reply |-> Reply(NoError, RowsOf(t, s))] :
               s \in NewestFirst(t)}
      [] req.kind = "select_recent" ->
           {[table |-> t, nextId |-> nid, reply |-> Reply(NoError, RowsOf(t, Take(s, req.limit)))] :
               s \in NewestFirst(t)}
      [] req.kind = "delete_eq" ->
           {[table |-> [i \in DOMAIN t \ {req.id} |-> t[i]], nextId |-> nid,
             reply |-> Reply(NoError, <<>>)]}
      [] req.kind = "delete_neq" ->
           {[table |-> [i \in DOMAIN t \cap {req.id} |-> t[i]], nextId |-> nid,
             reply |-> Reply(NoError, <<>>)]}
      [] req.kind = "update" ->
           IF IsSome(req.set.embedding) /\ Len(Get(req.set.embedding)) # D
           THEN {[table |-> t, nextId |-> nid, reply |-> Reply(DimensionMismatch, <<>>)]}
           ELSE IF req.id \in DOMAIN t
           THEN LET row == ApplyUpdate(t[req.id], req.set)
                    kept == DOMAIN t \ {req.id}
                IN  IF row.id \in kept
                    THEN {[table |-> t, nextId |-> nid, reply |-> Reply(UniqueViolation, <<>>)]}
                    ELSE {[table |-> [i \in kept \cup {row.id} |->
                                         IF i = row.id THEN row ELSE t[i]],
                           nextId |-> nid, reply |-> Reply(NoError, <<ToJson(row)>>)]}
           ELSE {[table |-> t, nextId |-> nid, reply |-> Reply(RowNotFound, <<>>)]}
      [] req.kind = "text_search" ->
           {[table |-> t, nextId |-> nid, reply |-> Reply(NoError, RowsOf(t, s))] :
               s \in Orderings({i \in DOMAIN t : t[i].content = req.query})}
      [] req.kind = "contains" ->
           {[table |-> t, nextId |-> nid, reply |-> Reply(NoError, RowsOf(t, s))] :
               s \in Orderings({i \in DOMAIN t :
                                  \E k \in 1..Len(t[i].tags) : t[i].tags[k] = req.tag})}
      [] req.kind = "match_notes" ->
           IF Len(req.query_embedding) # D
           THEN {[table |-> t, nextId |-> nid, reply |-> Reply(DimensionMismatch, <<>>)]}
           ELSE {[table |-> t, nextId |-> nid, reply |-> Reply(NoError, RowsOf(t, s))] :
                    s \in MatchNotes(t, req.query_embedding, req.match_count)}
      [] req.kind = "select_tags" ->
           {[table |-> t, nextId |-> nid, reply |-> Reply(NoError, RowsOf(t, s))] :
               s \in Orderings(DOMAIN t)}

(***************************************************************************)
(* SupabaseStorage: each method checks the client, builds one request,     *)
(* awaits the reply and maps it to its result.                             *)
(***************************************************************************)
Result(status, error, value) == [status |-> status, error |-> error, value |-> value]
Ok(value) == Result("ok", NoError, value)
Thrown(error) == Result("error", error, <<>>)
NotInitialized == "Supabase client not initialized. Call initialize() first."
\* `Failed to save note to Supabase: ${error.message}. ${error.hint || ''}`
SaveFailed(error) ==
    CASE error = StoreFailure -> "Failed to save note to Supabase: failure"
      [] error = DimensionMismatch -> "Failed to save note to Supabase: 22000"
      [] error = UniqueViolation -> "Failed to save note to Supabase: 23505"
      [] OTHER -> "Failed to save note to Supabase"

\* new Date(ts).getTime(): a timestamptz read back in whole milliseconds.
GetTime(ts) == ts \div TicksPerMs
\* new Date().toISOString(): the client's clock, stored as a timestamptz.
ToISOString(ms) == ms * TicksPerMs

ToNote(d) ==
    [id |-> d.id, content |-> d.content, embedding |-> d.embedding, tags |-> d.tags,
     source |-> d.source, createdAt |-> GetTime(d.created_at),
     updatedAt |-> GetTime(d.updated_at)]

MapNotes(data) == [k \in 1..Len(data) |-> ToNote(data[k])]

\* Order of Array.prototype.sort() without a comparator on the tags of the
\* model: by UTF-16 code unit, "Y" (89) before "x" (120).
TagOrder == <<"Y", "x">>
TagRank(tag) == CHOOSE k \in 1..Len(TagOrder) : TagOrder[k] = tag
SortTags(S) ==
    CHOOSE s \in Orderings(S) :
        \A j, k \in 1..Len(s) : j < k => TagRank(s[j]) < TagRank(s[k])

\* limit: number = 10
LimitOrDefault(limit) == IF IsSome(limit) THEN Get(limit) ELSE DefaultLimit

\* Mutant: saveNote sends the embedding as the provider produced it.
saveNoteRequestRaw(note) ==
    [kind |-> "insert",
     row |-> [content |-> note.content, embedding |-> note.embedding,
              tags |-> note.tags, source |-> note.source]]

saveNoteRequest(note) ==
    [kind |-> "insert",
     row |-> [content |-> note.content, embedding |-> normalizeEmbedding(note.embedding),
              tags |-> note.tags, source |-> note.source]]

saveNoteReturn(reply) ==
    IF reply.error # NoError THEN Thrown(SaveFailed(reply.error))
    ELSE Ok(<<ToNote(reply.data[1])>>)

getNoteRequest(id) == [kind |-> "select_single", id |-> id]

\* Mutant: getNote raises every error of the store.
getNoteReturnThrowAll(reply) ==
    IF reply.error # NoError THEN Thrown(reply.error)
    ELSE Ok(<<ToNote(reply.data[1])>>)

getNoteReturn(reply) ==
    IF reply.error # NoError
    THEN IF reply.error = RowNotFound THEN Ok(<<>>) ELSE Thrown(reply.error)
    ELSE Ok(<<ToNote(reply.data[1])>>)

getAllNotesRequest == [kind |-> "select_all"]

ListReturn(reply) ==
    IF reply.error # NoError THEN Thrown(reply.error) ELSE Ok(MapNotes(reply.data))

deleteNoteRequest(id) == [kind |-> "delete_eq", id |-> id]

VoidReturn(reply) ==
    IF reply.error # NoError THEN Thrown(reply.error) ELSE Ok(<<>>)

\* Mutant: updateNote sends every field of the partial note it was given.
updateNoteRequestWhole(id, updates, now) ==
    LET normalizedEmbedding ==
            IF IsSome(updates.embedding)
            THEN Some(normalizeEmbedding(Get(updates.embedding)))
            ELSE None
    IN  [kind |-> "update", id |-> id,
         set |-> [id |-> updates.id, content |-> updates.content,
                  embedding |-> normalizedEmbedding,
                  tags |-> updates.tags, source |-> updates.source,
                  created_at |-> IF IsSome(updates.createdAt)
                                 THEN Some(ToISOString(Get(updates.createdAt))) ELSE None,
                  updated_at |-> Some(ToISOString(now))]]

\* A field that is undefined is left out of the request body.
updateNoteRequest(id, updates, now) ==
    LET normalizedEmbedding ==
            IF IsSome(updates.embedding)
            THEN Some(normalizeEmbedding(Get(updates.embedding)))
            ELSE None
    IN  [kind |-> "update", id |-> id,
         set |-> [content |-> updates.content, embedding |-> normalizedEmbedding,
                  tags |-> updates.tags, source |-> updates.source,
                  updated_at |-> Some(ToISOString(now))]]

\* Mutant: updateNote treats row-not-found the way getNote does.
updateNoteReturnNullOnMissing(reply) ==
    IF reply.error # NoError
    THEN IF reply.error = RowNotFound THEN Ok(<<>>) ELSE Thrown(reply.error)
    ELSE Ok(<<ToNote(reply.data[1])>>)

updateNoteReturn(reply) ==
    IF reply.error # NoError THEN Thrown(reply.error)
    ELSE Ok(<<ToNote(reply.data[1])>>)

searchNotesRequest(query) == [kind |-> "text_search", query |-> query]

searchByVectorRequest(embedding, limit) ==
    [kind |-> "match_notes", query_embedding |-> normalizeEmbedding(embedding),
     match_threshold |-> <<ThresholdNum, ThresholdDen>>, match_count |-> limit]

searchByVectorReturn(reply) ==
    IF reply.error # NoError THEN Thrown(reply.error)
    ELSE IF Len(reply.data) = 0 THEN Ok(<<>>)
    ELSE Ok(MapNotes(reply.data))

searchByTagRequest(tag) == [kind |-> "contains", tag |-> tag]

getRecentNotesRequest(limit) == [kind |-> "select_recent", limit |-> limit]

getTagsRequest == [kind |-> "select_tags"]

getTagsReturn(reply) ==
    IF reply.error # NoError THEN Thrown(reply.error)
    ELSE LET tagsSet == UNION {{reply.data[k].tags[j] : j \in 1..Len(reply.data[k].tags)} :
                                 k \in 1..Len(reply.data)}
         IN  Ok(SortTags(tagsSet))

\* The all-zero uuid of clearAll's filter; no generated id equals it.
NilId == 0
\* Mutant: the filter is eq where the code has neq.
clearAllRequestEq == [kind |-> "delete_eq", id |-> NilId]

clearAllRequest == [kind |-> "delete_neq", id |-> NilId]

\* What a method does with the store's reply.
Return(op, reply) ==
    CASE op = "saveNote" -> saveNoteReturn(reply)
      [] op = "getNote" -> getNoteReturn(reply)
      [] op = "updateNote" -> updateNoteReturn(reply)
      [] op = "searchByVector" -> searchByVectorReturn(reply)
      [] op = "getTags" -> getTagsReturn(reply)
      [] op \in {"deleteNote", "clearAll"} -> VoidReturn(reply)
      [] OTHER -> ListReturn(reply)

(***************************************************************************)
(* Calls on a backend.  A call is invoked (client check, request built and *)
(* sent) and later completed (the store executes the request, the method   *)
(* maps the reply).                                                        *)
(***************************************************************************)
Configs == 1..NumConfigs
Ids == 1..MaxNotes
EmptyTable == [i \in {} |-> 0]

NoReq == [kind |-> "none"]
NoRes == Result("none", NoError, <<>>)
\* A call records, besides its request and result, the argument the caller
\* gave (arg) and the operations of the other callers that were in flight when
\* the store executed it (during).
NoArg == <<>>
IdleCall ==
    [pc |-> "idle", b |-> 0, op |-> "none", arg |-> NoArg, req |-> NoReq, res |-> NoRes,
     during |-> {}]

\* Notes given to saveNote: every sample embedding, every tag sequence, both
\* contents and both sources occur.
NoteInputs ==
    {[content |-> IF Len(e) = D THEN "a" ELSE "b", embedding |-> e,
      tags |-> t, source |-> s] :
        e \in SampleEmbeddings, t \in {<<"x">>}, s \in {CHOOSE x \in Sources : x.url = "u1"}}
    \cup
    {[content |-> "a", embedding |-> [i \in 1..D |-> 1], tags |-> t, source |-> s] :
        t \in TagSeqs, s \in Sources}

NoUpdates ==
    [id |-> None, content |-> None, embedding |-> None, tags |-> None, source |-> None,
     createdAt |-> None, updatedAt |-> None]
\* Partial<Note> given to updateNote: nothing, one field, or all of them.
UpdateInputs ==
    {NoUpdates}
    \cup {[NoUpdates EXCEPT !.id = Some(MaxNotes), !.createdAt = Some(MaxMillis + 1)]}
    \cup {[NoUpdates EXCEPT !.content = Some(x)] : x \in {"b"}}
    \cup {[NoUpdates EXCEPT !.embedding = Some(e)] : e \in SampleEmbeddings}
    \cup {[NoUpdates EXCEPT !.tags = Some(t)] : t \in {<<"Y">>, <<"Y", "Y">>}}
    \cup {[NoUpdates EXCEPT !.source = Some(s)] : s \in {CHOOSE x \in Sources : x.url = "u2"}}
    \cup {[id |-> Some(MaxNotes), content |-> Some("b"), embedding |-> Some(<<1>>),
           tags |-> Some(<<"Y">>), source |-> Some(CHOOSE x \in Sources : x.url = "u2"),
           createdAt |-> Some(MaxMillis + 1), updatedAt |-> Some(MaxMillis + 1)]}

LimitInputs == {None, Some(1)}

\* Mutant: the client check is missing.
ensureClientUnchecked(b) == TRUE

\* ensureClient: throws unless initialize() has set the client.
ensureClient(b) == backends[b].client

InFlightInserts(cfg) ==
    Cardinality({c \in Callers : /\ calls[c].pc = "sent"
                                 /\ calls[c].req.kind = "insert"
                                 /\ backends[calls[c].b].cfg = cfg})

WriteOps == {"saveNote", "updateNote", "deleteNote", "clearAll"}

InvokeWith(c, b, op, arg, req) ==
    /\ calls[c].pc # "sent"
    /\ IF op \in WriteOps
       THEN nwrites < MaxWrites /\ nwrites' = nwrites + 1
       ELSE nwrites' = nwrites
    /\ calls' = [calls EXCEPT ![c] =
                    IF ensureClient(b)
                    THEN [pc |-> "sent", b |-> b, op |-> op, arg |-> arg, req |-> req,
                          res |-> NoRes, during |-> {}]
                    ELSE [pc |-> "done", b |-> b, op |-> op, arg |-> arg, req |-> NoReq,
                          res |-> Thrown(NotInitialized), during |-> {}]]
    /\ UNCHANGED <<backends, db, nextId, serverNow, clientNow>>

Invoke(c, b, op, req) == InvokeWith(c, b, op, NoArg, req)

initialize(b) ==
    /\ backends' = [backends EXCEPT ![b].client = TRUE]
    /\ UNCHANGED <<db, nextId, serverNow, clientNow, calls, nwrites>>

saveNote(c, b) ==
    /\ nextId[backends[b].cfg] + InFlightInserts(backends[b].cfg) <= MaxNotes
    /\ \E note \in NoteInputs : InvokeWith(c, b, "saveNote", note, saveNoteRequest(note))

getNote(c, b) ==
    \E id \in Ids : Invoke(c, b, "getNote", getNoteRequest(id))

getAllNotes(c, b) ==
    Invoke(c, b, "getAllNotes", getAllNotesRequest)

deleteNote(c, b) ==
    \E id \in Ids : Invoke(c, b, "deleteNote", deleteNoteRequest(id))

updateNote(c, b) ==
    \E id \in Ids, updates \in UpdateInputs :
        InvokeWith(c, b, "updateNote", updates, updateNoteRequest(id, updates, clientNow))

searchNotes(c, b) ==
    \E query \in Contents : Invoke(c, b, "searchNotes", searchNotesRequest(query))

searchByVector(c, b) ==
    \E embedding \in SampleEmbeddings, limit \in LimitInputs :
        InvokeWith(c, b, "searchByVector", limit,
                   searchByVectorRequest(embedding, LimitOrDefault(limit)))

searchByTag(c, b) ==
    \E tag \in Tags : Invoke(c, b, "searchByTag", searchByTagRequest(tag))

getRecentNotes(c, b) ==
    \E limit \in LimitInputs :
        InvokeWith(c, b, "getRecentNotes", limit,
                   getRecentNotesRequest(LimitOrDefault(limit)))

getTags(c, b) ==
    Invoke(c, b, "getTags", getTagsRequest)

clearAll(c, b) ==
    Invoke(c, b, "clearAll", clearAllRequest)

InFlightBeside(c) == {calls[d].op : d \in {e \in Callers \ {c} : calls[e].pc = "sent"}}

\* The store executes the request of caller c and the method returns.
StoreReplies(c) ==
    /\ calls[c].pc = "sent"
    /\ LET cfg == backends[calls[c].b].cfg
       IN  \E out \in StoreExec(db[cfg], nextId[cfg], serverNow, calls[c].req) :
             /\ db' = [db EXCEPT ![cfg] = out.table]
             /\ nextId' = [nextId EXCEPT ![cfg] = out.nextId]
             /\ calls' = [calls EXCEPT ![c].pc = "done",
                                       ![c].res = Return(calls[c].op, out.reply),
                                       ![c].during = InFlightBeside(c)]
    /\ UNCHANGED <<backends, serverNow, clientNow, nwrites>>

\* The request of caller c fails at the store (network, permissions).
StoreFails(c) ==
    /\ calls[c].pc = "sent"
    /\ calls' = [calls EXCEPT ![c].pc = "done",
                              ![c].res = Return(calls[c].op, Reply(StoreFailure, <<>>)),
                              ![c].during = InFlightBeside(c)]
    /\ UNCHANGED <<backends, db, nextId, serverNow, clientNow, nwrites>>

ServerTick ==
    /\ serverNow < MaxTicks
    /\ serverNow' = serverNow + 1
    /\ UNCHANGED <<backends, db, nextId, clientNow, calls, nwrites>>

ClientTick ==
    /\ clientNow < MaxMillis
    /\ clientNow' = clientNow + 1
    /\ UNCHANGED <<backends, db, nextId, serverNow, calls, nwrites>>

\* The pages: the search page and the popup, each with its results container.
Pages == {"search", "popup"}
Blank == [kind |-> "initial", query |-> ""]

UiOff ==
    /\ uiNow = 0
    /\ chat = <<>>
    /\ asks = <<>>
    /\ shown = [p \in Pages |-> Blank]
    /\ searches = [p \in Pages |-> <<>>]

NormOff ==
    /\ normPc = "off"
    /\ normIn = <<>>
    /\ normOut = <<>>
    /\ normTwice = <<>>

WorkerOff ==
    /\ config = 1
    /\ instance = 0
    /\ discarded = {}
    /\ tasks = [t \in Callers |-> [pc |-> "idle"]]
    /\ nmsgs = 0

StoreStart ==
    /\ db = [cfg \in Configs |-> EmptyTable]
    /\ nextId = [cfg \in Configs |-> 1]
    /\ serverNow = 0
    /\ clientNow = 0
    /\ calls = [c \in Callers |-> IdleCall]
    /\ nwrites = 0

(***************************************************************************)
(* One SupabaseStorage object, constructed and not yet initialized, and    *)
(* one caller that awaits each call before the next.                       *)
(***************************************************************************)
Init ==
    /\ NormOff
    /\ UiOff
    /\ WorkerOff
    /\ StoreStart
    /\ backends = <<[cfg |-> 1, client |-> FALSE]>>

Next ==
    \/ initialize(1) /\ UNCHANGED normVars /\ UNCHANGED uiVars /\ UNCHANGED workerVars
    \/ saveNote(1, 1) /\ UNCHANGED normVars /\ UNCHANGED uiVars /\ UNCHANGED workerVars
    \/ getNote(1, 1) /\ UNCHANGED normVars /\ UNCHANGED uiVars /\ UNCHANGED workerVars
    \/ getAllNotes(1, 1) /\ UNCHANGED normVars /\ UNCHANGED uiVars /\ UNCHANGED workerVars
    \/ deleteNote(1, 1) /\ UNCHANGED normVars /\ UNCHANGED uiVars /\ UNCHANGED workerVars
    \/ updateNote(1, 1) /\ UNCHANGED normVars /\ UNCHANGED uiVars /\ UNCHANGED workerVars
    \/ searchNotes(1, 1) /\ UNCHANGED normVars /\ UNCHANGED uiVars /\ UNCHANGED workerVars
    \/ searchByVector(1, 1) /\ UNCHANGED normVars /\ UNCHANGED uiVars /\ UNCHANGED workerVars
    \/ searchByTag(1, 1) /\ UNCHANGED normVars /\ UNCHANGED uiVars /\ UNCHANGED workerVars
    \/ getRecentNotes(1, 1) /\ UNCHANGED normVars /\ UNCHANGED uiVars /\ UNCHANGED workerVars
    \/ getTags(1, 1) /\ UNCHANGED normVars /\ UNCHANGED uiVars /\ UNCHANGED workerVars
    \/ clearAll(1, 1) /\ UNCHANGED normVars /\ UNCHANGED uiVars /\ UNCHANGED workerVars
    \/ StoreReplies(1) /\ UNCHANGED normVars /\ UNCHANGED uiVars /\ UNCHANGED workerVars
    \/ StoreFails(1) /\ UNCHANGED normVars /\ UNCHANGED uiVars /\ UNCHANGED workerVars
    \/ ServerTick /\ UNCHANGED normVars /\ UNCHANGED uiVars /\ UNCHANGED workerVars
    \/ ClientTick /\ UNCHANGED normVars /\ UNCHANGED uiVars /\ UNCHANGED workerVars

Spec == Init /\ [][Next]_vars

(***************************************************************************)
(* The background worker: the backend selector (StorageFactory), the       *)
(* message listener and the handlers of handleMessage.  Each task is one   *)
(* message being handled; a step runs a handler from one await to the next.*)
(***************************************************************************)
Tasks == Callers
AiNone == [st |-> "none", v |-> <<>>]
AiPending == [st |-> "pending", v |-> <<>>]
AiOk(v) == [st |-> "ok", v |-> v]
IdleTask ==
    [action |-> "none", pc |-> "idle", storage |-> 0, data |-> <<>>,
     emb |-> AiNone, tags |-> AiNone, notes |-> <<>>, todo |-> <<>>, response |-> NoRes]

\* What the AI provider may answer.
AiEmbeddings == {<<1>>, <<1, 1, 1>>}
AiTags == {<<"x">>, <<"Y", "x">>}
AiFailure == "AI request failed"
Answer == "answer"

Active(t) == tasks[t].pc \notin {"idle", "done"}

\* StorageFactory.getStorage(): the cached instance, or a backend constructed
\* from the stored configuration and initialized, which it caches.
GetStorage ==
    IF instance # 0
    THEN UNCHANGED <<backends, instance>>
    ELSE /\ backends' = Append(backends, [cfg |-> config, client |-> TRUE])
         /\ instance' = Len(backends) + 1

\* StorageFactory.clearInstance(): forget the cached instance.
ClearInstance(inst) == 0

\* Mutant: setConfig leaves the cached instance in place.
AfterConfigStoredKeep(inst) == inst

\* case 'setConfig', after the configuration is stored: clear the instances.
AfterConfigStored(inst) == ClearInstance(inst)

\* chrome.runtime.onMessage: sendResponse(result) or sendResponse({error}).
Respond(t, response) ==
    /\ tasks' = [tasks EXCEPT ![t] =
                    [IdleTask EXCEPT !.action = tasks[t].action, !.pc = "done",
                                     !.response = response]]
    /\ calls' = [calls EXCEPT ![t] = IdleCall]
    /\ UNCHANGED <<backends, db, nextId, serverNow, clientNow, nwrites>>

Failure(message) == Result("error", message, <<>>)

\* A handler that starts with `await StorageFactory.getStorage()`.
StartHandler(t, action, data) ==
    /\ ~Active(t)
    /\ nmsgs < MaxMessages
    /\ nmsgs' = nmsgs + 1
    /\ GetStorage
    /\ tasks' = [tasks EXCEPT ![t] =
                    [IdleTask EXCEPT !.action = action, !.pc = "start",
                                     !.storage = instance', !.data = data]]
    /\ UNCHANGED <<config, discarded, db, nextId, serverNow, clientNow, calls, nwrites>>

At(t, action, pc) == tasks[t].action = action /\ tasks[t].pc = pc

\* The handler calls a method of its backend and awaits it.
CallStorage(t, op, req, pc) ==
    /\ Invoke(t, tasks[t].storage, op, req)
    /\ tasks' = [tasks EXCEPT ![t].pc = pc]
    /\ UNCHANGED <<config, instance, discarded, nmsgs>>

Returned(t) == calls[t].pc = "done"

Quiet == UNCHANGED <<config, instance, discarded, nmsgs>>

\* ---- searchNotes
searchNotesStart(t) ==
    \E query \in {"a"} : StartHandler(t, "searchNotes", query)

searchNotesCall(t) ==
    /\ At(t, "searchNotes", "start")
    /\ CallStorage(t, "searchNotes", searchNotesRequest(tasks[t].data), "await")

\* ---- getRecentNotes
getRecentNotesStart(t) ==
    \E limit \in LimitInputs : StartHandler(t, "getRecentNotes", limit)

getRecentNotesCall(t) ==
    /\ At(t, "getRecentNotes", "start")
    /\ CallStorage(t, "getRecentNotes",
                   getRecentNotesRequest(LimitOrDefault(tasks[t].data)), "await")

\* ---- deleteNote
deleteNoteStart(t) ==
    \E id \in Ids : StartHandler(t, "deleteNote", id)

deleteNoteCall(t) ==
    /\ At(t, "deleteNote", "start")
    /\ CallStorage(t, "deleteNote", deleteNoteRequest(tasks[t].data), "await")

\* ---- getTags
getTagsStart(t) ==
    StartHandler(t, "getTags", <<>>)

getTagsCall(t) ==
    /\ At(t, "getTags", "start")
    /\ CallStorage(t, "getTags", getTagsRequest, "await")

\* Mutant: the catch block logs the error and the handler returns normally.
SingleCallReturnsSwallowing(t) ==
    /\ tasks[t].action \in {"searchNotes", "getRecentNotes", "deleteNote", "getTags"}
    /\ tasks[t].pc = "await"
    /\ Returned(t)
    /\ Respond(t, Ok(calls[t].res.value))
    /\ Quiet

\* searchNotes, getRecentNotes, deleteNote, getTags: the awaited call returns;
\* its error is rethrown, its value wrapped in the response.
SingleCallReturns(t) ==
    /\ tasks[t].action \in {"searchNotes", "getRecentNotes", "deleteNote", "getTags"}
    /\ tasks[t].pc = "await"
    /\ Returned(t)
    /\ Respond(t, IF calls[t].res.status = "error"
                  THEN Failure(calls[t].res.error)
                  ELSE Ok(calls[t].res.value))
    /\ Quiet

\* ---- saveNote
PendingSaves == Cardinality({t \in Tasks : Active(t) /\ tasks[t].action = "saveNote"})

saveNoteStart(t) ==
    /\ \A cfg \in Configs : nextId[cfg] + PendingSaves <= MaxNotes
    /\ \E content \in {"b"} : StartHandler(t, "saveNote", content)

\* Mutant: generateTags is started only once generateEmbedding has been awaited.
saveNoteGenerateInTurn(t) ==
    /\ At(t, "saveNote", "start")
    /\ tasks' = [tasks EXCEPT ![t].pc = "ai", ![t].emb = AiPending, ![t].tags = AiNone]
    /\ Quiet
    /\ UNCHANGED storeVars

\* Promise.all([generateEmbedding(content), generateTags(content)]): both started.
saveNoteGenerate(t) ==
    /\ At(t, "saveNote", "start")
    /\ tasks' = [tasks EXCEPT ![t].pc = "ai", ![t].emb = AiPending, ![t].tags = AiPending]
    /\ Quiet
    /\ UNCHANGED storeVars

saveNoteEmbeddingDone(t) ==
    /\ At(t, "saveNote", "ai")
    /\ tasks[t].emb.st = "pending"
    /\ \E e \in AiEmbeddings : tasks' = [tasks EXCEPT ![t].emb = AiOk(e)]
    /\ Quiet
    /\ UNCHANGED storeVars

saveNoteTagsDone(t) ==
    /\ At(t, "saveNote", "ai")
    /\ tasks[t].tags.st = "pending"
    /\ \E g \in AiTags : tasks' = [tasks EXCEPT ![t].tags = AiOk(g)]
    /\ Quiet
    /\ UNCHANGED storeVars

\* Either AI call rejects: Promise.all rejects, saveNote rethrows.
saveNoteAiFails(t) ==
    /\ At(t, "saveNote", "ai")
    /\ tasks[t].emb.st = "pending" \/ tasks[t].tags.st = "pending"
    /\ Respond(t, Failure(AiFailure))
    /\ Quiet

saveNoteCall(t) ==
    /\ At(t, "saveNote", "ai")
    /\ tasks[t].emb.st = "ok"
    /\ tasks[t].tags.st = "ok"
    /\ CallStorage(t, "saveNote",
                   saveNoteRequest([content |-> tasks[t].data, embedding |-> tasks[t].emb.v,
                                    tags |-> tasks[t].tags.v,
                                    source |-> [url |-> "u1", title |-> "t1",
                                                timestamp |-> clientNow]]),
                   "await")

saveNoteReturns(t) ==
    /\ At(t, "saveNote", "await")
    /\ Returned(t)
    /\ Respond(t, IF calls[t].res.status = "error"
                  THEN Failure(calls[t].res.error)
                  ELSE Ok(<<>>))
    /\ Quiet

\* ---- askQuestion
\* Vector search is asked for 5 notes, and so is the recency fallback.
AskLimit == 5

askQuestionStart(t) ==
    StartHandler(t, "askQuestion", "q")

\* generateEmbedding(question) is started and awaited.
askQuestionEmbed(t) ==
    /\ At(t, "askQuestion", "start")
    /\ tasks' = [tasks EXCEPT ![t].pc = "embed", ![t].emb = AiPending]
    /\ Quiet
    /\ UNCHANGED storeVars

\* The query embedding arrives: storage.searchByVector(queryEmbedding, 5).
askQuestionSearch(t) ==
    /\ At(t, "askQuestion", "embed")
    /\ \E e \in AiEmbeddings :
          /\ Invoke(t, tasks[t].storage, "searchByVector", searchByVectorRequest(e, AskLimit))
          /\ tasks' = [tasks EXCEPT ![t].pc = "search", ![t].emb = AiNone]
    /\ Quiet

askQuestionEmbedFails(t) ==
    /\ At(t, "askQuestion", "embed")
    /\ Respond(t, Failure(AiFailure))
    /\ Quiet

\* Vector search returned notes: they are the context of answerQuestion.
askQuestionRelevant(t) ==
    /\ At(t, "askQuestion", "search")
    /\ Returned(t)
    /\ calls[t].res.status = "ok"
    /\ Len(calls[t].res.value) # 0
    /\ tasks' = [tasks EXCEPT ![t].pc = "answer", ![t].notes = calls[t].res.value]
    /\ Quiet
    /\ UNCHANGED storeVars

\* Mutant: an empty vector search goes on to the answer with no context.
askQuestionFallbackNone(t) ==
    /\ At(t, "askQuestion", "search")
    /\ Returned(t)
    /\ calls[t].res.status = "ok"
    /\ Len(calls[t].res.value) = 0
    /\ tasks' = [tasks EXCEPT ![t].pc = "answer", ![t].notes = <<>>]
    /\ Quiet
    /\ UNCHANGED storeVars

\* Vector search returned nothing: storage.getRecentNotes(5).
askQuestionFallback(t) ==
    /\ At(t, "askQuestion", "search")
    /\ Returned(t)
    /\ calls[t].res.status = "ok"
    /\ Len(calls[t].res.value) = 0
    /\ CallStorage(t, "getRecentNotes", getRecentNotesRequest(AskLimit), "recent")

askQuestionRecent(t) ==
    /\ At(t, "askQuestion", "recent")
    /\ Returned(t)
    /\ calls[t].res.status = "ok"
    /\ tasks' = [tasks EXCEPT ![t].pc = "answer", ![t].notes = calls[t].res.value]
    /\ Quiet
    /\ UNCHANGED storeVars

askQuestionStorageFails(t) ==
    /\ tasks[t].action = "askQuestion"
    /\ tasks[t].pc \in {"search", "recent"}
    /\ Returned(t)
    /\ calls[t].res.status = "error"
    /\ Respond(t, Failure(calls[t].res.error))
    /\ Quiet

\* sources: id, content.substring(0, 200) and tags of each note of the context.
SourcesOf(notes) ==
    [k \in 1..Len(notes) |->
        [id |-> notes[k].id, content |-> notes[k].content, tags |-> notes[k].tags]]

askQuestionAnswered(t) ==
    /\ At(t, "askQuestion", "answer")
    /\ \/ Respond(t, Ok(<<[answer |-> Answer, sources |-> SourcesOf(tasks[t].notes)]>>))
       \/ Respond(t, Failure(AiFailure))
    /\ Quiet

\* ---- deleteAllNotes
deleteAllNotesStart(t) ==
    StartHandler(t, "deleteAllNotes", <<>>)

deleteAllNotesList(t) ==
    /\ At(t, "deleteAllNotes", "start")
    /\ CallStorage(t, "getAllNotes", getAllNotesRequest, "list")

\* for (const note of notes) await storage.deleteNote(note.id): the next one.
deleteAllNotesNext(t) ==
    /\ tasks[t].action = "deleteAllNotes"
    /\ Returned(t)
    /\ calls[t].res.status = "ok"
    /\ \/ /\ tasks[t].pc = "list"
          /\ Len(calls[t].res.value) > 0
          /\ Invoke(t, tasks[t].storage, "deleteNote",
                    deleteNoteRequest(calls[t].res.value[1].id))
          /\ tasks' = [tasks EXCEPT ![t].pc = "loop", ![t].notes = calls[t].res.value,
                                    ![t].todo = Tail(calls[t].res.value)]
       \/ /\ tasks[t].pc = "loop"
          /\ Len(tasks[t].todo) > 0
          /\ Invoke(t, tasks[t].storage, "deleteNote",
                    deleteNoteRequest(tasks[t].todo[1].id))
          /\ tasks' = [tasks EXCEPT ![t].todo = Tail(tasks[t].todo)]
    /\ Quiet

\* The loop is over: { success: true, deletedCount: notes.length }.
deleteAllNotesDone(t) ==
    /\ tasks[t].action = "deleteAllNotes"
    /\ Returned(t)
    /\ calls[t].res.status = "ok"
    /\ \/ /\ tasks[t].pc = "list"
          /\ Len(calls[t].res.value) = 0
          /\ Respond(t, Ok(<<0>>))
       \/ /\ tasks[t].pc = "loop"
          /\ Len(tasks[t].todo) = 0
          /\ Respond(t, Ok(<<Len(tasks[t].notes)>>))
    /\ Quiet

\* Mutant: the error of a deleteNote is logged and the count returned.
deleteAllNotesFailsSwallowing(t) ==
    /\ tasks[t].action = "deleteAllNotes"
    /\ tasks[t].pc \in {"list", "loop"}
    /\ Returned(t)
    /\ calls[t].res.status = "error"
    /\ Respond(t, Ok(<<Len(tasks[t].notes)>>))
    /\ Quiet

deleteAllNotesFails(t) ==
    /\ tasks[t].action = "deleteAllNotes"
    /\ tasks[t].pc \in {"list", "loop"}
    /\ Returned(t)
    /\ calls[t].res.status = "error"
    /\ Respond(t, Failure(calls[t].res.error))
    /\ Quiet

\* ---- setConfig, getConfig, unknown actions
\* await chrome.storage.sync.set({ config: data.config })
setConfigStore(t) ==
    /\ ~Active(t)
    /\ nmsgs < MaxMessages
    /\ nmsgs' = nmsgs + 1
    /\ \E cfg \in Configs :
          /\ config' = cfg
          /\ tasks' = [tasks EXCEPT ![t] =
                          [IdleTask EXCEPT !.action = "setConfig", !.pc = "stored",
                                           !.data = cfg]]
    /\ UNCHANGED <<instance, discarded, backends>>
    /\ UNCHANGED <<db, nextId, serverNow, clientNow, calls, nwrites>>

\* The configuration is stored: clear the instances, report success.
setConfigClear(t) ==
    /\ At(t, "setConfig", "stored")
    /\ instance' = AfterConfigStored(instance)
    /\ discarded' = discarded \cup ({instance} \ {0})
    /\ Respond(t, Ok(<<>>))
    /\ UNCHANGED <<config, nmsgs>>

getConfig(t) ==
    /\ ~Active(t)
    /\ nmsgs < MaxMessages
    /\ nmsgs' = nmsgs + 1
    /\ tasks' = [tasks EXCEPT ![t] =
                    [IdleTask EXCEPT !.action = "getConfig", !.pc = "done",
                                     !.response = Ok(<<config>>)]]
    /\ UNCHANGED <<config, instance, discarded>>
    /\ UNCHANGED storeVars

\* Mutant: the listener has no catch, the thrown error is answered by nothing.
unknownActionUncaught(t) ==
    /\ ~Active(t)
    /\ nmsgs < MaxMessages
    /\ nmsgs' = nmsgs + 1
    /\ tasks' = [tasks EXCEPT ![t] =
                    [IdleTask EXCEPT !.action = "unknown", !.pc = "thrown"]]
    /\ UNCHANGED <<config, instance, discarded>>
    /\ UNCHANGED storeVars

\* default: throw new Error(`Unknown action: ${action}`)
unknownAction(t) ==
    /\ ~Active(t)
    /\ nmsgs < MaxMessages
    /\ nmsgs' = nmsgs + 1
    /\ tasks' = [tasks EXCEPT ![t] =
                    [IdleTask EXCEPT !.action = "unknown", !.pc = "done",
                                     !.response = Failure("Unknown action")]]
    /\ UNCHANGED <<config, instance, discarded>>
    /\ UNCHANGED storeVars

WorkerStep(t) ==
    \/ searchNotesStart(t) \/ searchNotesCall(t)
    \/ getRecentNotesStart(t) \/ getRecentNotesCall(t)
    \/ deleteNoteStart(t) \/ deleteNoteCall(t)
    \/ getTagsStart(t) \/ getTagsCall(t)
    \/ SingleCallReturns(t)
    \/ saveNoteStart(t) \/ saveNoteGenerate(t) \/ saveNoteEmbeddingDone(t)
    \/ saveNoteTagsDone(t) \/ saveNoteAiFails(t) \/ saveNoteCall(t) \/ saveNoteReturns(t)
    \/ askQuestionStart(t) \/ askQuestionEmbed(t) \/ askQuestionSearch(t)
    \/ askQuestionEmbedFails(t) \/ askQuestionRelevant(t) \/ askQuestionFallback(t)
    \/ askQuestionRecent(t) \/ askQuestionStorageFails(t) \/ askQuestionAnswered(t)
    \/ deleteAllNotesStart(t) \/ deleteAllNotesList(t) \/ deleteAllNotesNext(t)
    \/ deleteAllNotesDone(t) \/ deleteAllNotesFails(t)
    \/ setConfigStore(t) \/ setConfigClear(t) \/ getConfig(t) \/ unknownAction(t)

\* Tables as earlier sessions left them: empty, or holding up to MaxNotes
\* notes saved at store time 0.
RECURSIVE Seeded(_, _)
Seeded(t, n) ==
    IF n = 0 THEN t
    ELSE LET prev == Seeded(t, n - 1)
             note == [content |-> IF n % 2 = 1 THEN "a" ELSE "b",
                      embedding |-> IF n % 2 = 1 THEN <<1>> ELSE <<0, 1>>,
                      tags |-> IF n % 2 = 1 THEN <<"x">> ELSE <<"Y", "x">>,
                      source |-> [url |-> "u1", title |-> "t1", timestamp |-> 0]]
         IN  (CHOOSE out \in StoreExec(prev, n, 0, saveNoteRequest(note)) : TRUE).table

WorkerInit ==
    /\ NormOff
    /\ UiOff
    /\ backends = <<>>
    /\ \E n \in 0..MaxNotes :
          /\ db = [cfg \in Configs |-> IF cfg = 1 THEN Seeded(EmptyTable, n) ELSE EmptyTable]
          /\ nextId = [cfg \in Configs |-> IF cfg = 1 THEN n + 1 ELSE 1]
    /\ serverNow = 0
    /\ clientNow = 0
    /\ calls = [c \in Callers |-> IdleCall]
    /\ nwrites = 0
    /\ config = 1
    /\ instance = 0
    /\ discarded = {}
    /\ tasks = [t \in Tasks |-> IdleTask]
    /\ nmsgs = 0

\* The clocks stand still: no handler's control flow reads them.
WorkerNext ==
    \/ \E t \in Tasks : WorkerStep(t) /\ UNCHANGED normVars /\ UNCHANGED uiVars
    \/ \E t \in Tasks : StoreReplies(t) /\ UNCHANGED normVars /\ UNCHANGED uiVars /\ UNCHANGED workerVars
    \/ \E t \in Tasks : StoreFails(t) /\ UNCHANGED normVars /\ UNCHANGED uiVars /\ UNCHANGED workerVars

SpecWorker == WorkerInit /\ [][WorkerNext]_vars

\* The event loop runs every continuation that is ready, and every storage
\* and AI call that a handler awaits resolves or fails: a handler under way
\* is not left waiting for ever.  The delivery of messages is not forced.
TaskProgress(t) ==
    \/ Active(t) /\ WorkerStep(t) /\ UNCHANGED normVars /\ UNCHANGED uiVars
    \/ (StoreReplies(t) \/ StoreFails(t)) /\ UNCHANGED normVars /\ UNCHANGED uiVars /\ UNCHANGED workerVars

\* What every step of TaskProgress(t) changes.
TaskView(t) ==
    <<tasks[t].pc, tasks[t].emb.st, tasks[t].tags.st, Len(tasks[t].todo), calls[t].pc>>

SpecWorkerLive ==
    WorkerInit /\ [][WorkerNext]_vars /\ \A t \in Tasks : WF_(TaskView(t))(TaskProgress(t))

(***************************************************************************)
(* Properties of the backend.                                              *)
(***************************************************************************)
CfgOf(c) == backends[calls[c].b].cfg
Issued(c) == calls[c].pc \in {"sent", "done"} /\ calls[c].req.kind # "none"
\* Caller c's call is invoked in this step.
Invoked(c) ==
    /\ calls[c].pc # "sent"
    /\ calls'[c].pc \in {"sent", "done"}
    /\ calls'[c] # calls[c]
\* Caller c's call completes in this step.
Completes(c, op) ==
    /\ calls[c].pc = "sent"
    /\ calls[c].op = op
    /\ calls'[c].pc = "done"

\* C1: every embedding sent to the store (insert, update, match_notes) and
\* every persisted embedding has exactly D components.
C1_EmbeddingLength ==
    /\ \A c \in Callers : Issued(c) =>
          /\ calls[c].req.kind = "insert" => Len(calls[c].req.row.embedding) = D
          /\ calls[c].req.kind = "update" /\ IsSome(calls[c].req.set.embedding) =>
                Len(Get(calls[c].req.set.embedding)) = D
          /\ calls[c].req.kind = "match_notes" => Len(calls[c].req.query_embedding) = D
    /\ \A cfg \in Configs : \A i \in DOMAIN db[cfg] : Len(db[cfg][i].embedding) = D

\* A note saved from a one-component embedding, later updated with an empty one.
C1_Witness ==
    \E c \in Callers :
        /\ calls[c].pc = "done"
        /\ calls[c].op = "updateNote"
        /\ calls[c].res.status = "ok"
        /\ calls[c].res.value[1].embedding.value = [i \in 1..D |-> 0]
        /\ \E i \in DOMAIN db[1] : db[1][i].embedding = [k \in 1..D |-> 0]

\* C4: a call on a backend whose initialize() has not run throws 'not
\* initialized', sends nothing and changes no table; on an initialized
\* backend no call ends with that error.
C4_NotInitialized ==
    [][\A c \in Callers :
          /\ Invoked(c) =>
                IF backends[calls'[c].b].client
                THEN calls'[c].res.error # NotInitialized
                ELSE /\ calls'[c].pc = "done"
                     /\ calls'[c].res = Thrown(NotInitialized)
                     /\ calls'[c].req = NoReq
                     /\ db' = db
          /\ calls[c].pc = "sent" /\ calls'[c].pc = "done" =>
                calls'[c].res.error # NotInitialized]_vars

C4_Witness ==
    \E c \in Callers :
        /\ calls[c].pc = "done"
        /\ calls[c].op = "clearAll"
        /\ ~backends[calls[c].b].client
        /\ calls[c].res = Thrown(NotInitialized)

\* C7 (as claimed): deleteNote of an id that is not stored ends in an error
\* and leaves the table as it was.
C7_DeleteAbsentFails ==
    [][\A c \in Callers :
          Completes(c, "deleteNote") /\ calls[c].req.id \notin DOMAIN db[CfgOf(c)] =>
              /\ calls'[c].res.status = "error"
              /\ db' = db]_vars

\* C8: getNote of an id that is not stored returns null; the only error it
\* raises is a failure of the store, never row-not-found.
C8_GetAbsentIsNull ==
    [][\A c \in Callers :
          Completes(c, "getNote") /\ calls[c].req.id \notin DOMAIN db[CfgOf(c)] =>
              /\ calls'[c].res \in {Ok(<<>>), Thrown(StoreFailure)}
              /\ db' = db]_vars

C8_Witness ==
    \E c \in Callers :
        /\ calls[c].pc = "done"
        /\ calls[c].op = "getNote"
        /\ calls[c].req.kind = "select_single"
        /\ calls[c].req.id \notin DOMAIN db[CfgOf(c)]
        /\ DOMAIN db[CfgOf(c)] # {}
        /\ calls[c].res = Ok(<<>>)

\* C9: updateNote of an id that is not stored ends in an error, creates no
\* note and changes no stored note.
C9_UpdateAbsentFails ==
    [][\A c \in Callers :
          Completes(c, "updateNote") /\ calls[c].req.id \notin DOMAIN db[CfgOf(c)] =>
              /\ calls'[c].res.status = "error"
              /\ db' = db]_vars

C9_Witness ==
    \E c \in Callers :
        /\ calls[c].pc = "done"
        /\ calls[c].op = "updateNote"
        /\ calls[c].req.kind = "update"
        /\ calls[c].req.id \notin DOMAIN db[CfgOf(c)]
        /\ DOMAIN db[CfgOf(c)] # {}
        /\ calls[c].res = Thrown(RowNotFound)

\* The update request of caller c sets tags and nothing else of the note.
TagsOnly(c) ==
    /\ calls[c].req.kind = "update"
    /\ IsSome(calls[c].req.set.tags)
    /\ ~IsSome(calls[c].req.set.content)
    /\ ~IsSome(calls[c].req.set.embedding)
    /\ ~IsSome(calls[c].req.set.source)

\* C10 (as claimed): a successful updateNote with only tags keeps the note's
\* content, embedding, source and createdAt, keeps every other note, and
\* strictly increases the note's updatedAt.
C10_TagsOnlyUpdate ==
    [][\A c \in Callers :
          /\ Completes(c, "updateNote")
          /\ TagsOnly(c)
          /\ calls[c].req.id \in DOMAIN db[CfgOf(c)]
          /\ calls'[c].res.status = "ok"
          => LET old == db[CfgOf(c)]
                 new == db'[CfgOf(c)]
                 id == calls[c].req.id
             IN  /\ DOMAIN new = DOMAIN old
                 /\ \A i \in DOMAIN old \ {id} : new[i] = old[i]
                 /\ new[id].content = old[id].content
                 /\ new[id].embedding = old[id].embedding
                 /\ new[id].source = old[id].source
                 /\ GetTime(new[id].created_at) = GetTime(old[id].created_at)
                 /\ GetTime(new[id].updated_at) > GetTime(old[id].updated_at)]_vars

(***************************************************************************)
(* Properties of the backend selector and the worker.                      *)
(***************************************************************************)
TaskStarts(t) == ~Active(t) /\ tasks'[t].pc = "start"
SetConfigPending == \E u \in Tasks : At(u, "setConfig", "stored")

\* C5: a handler started after setConfig was handled gets a backend that no
\* setConfig has dropped, built from the stored configuration (when no other
\* setConfig is under way), and makes every storage call on that backend.
C5_NextOperationOnNewBackend ==
    [][\A t \in Tasks :
          /\ TaskStarts(t) =>
                /\ tasks'[t].storage \notin discarded
                /\ ~SetConfigPending => backends'[tasks'[t].storage].cfg = config
          /\ Invoked(t) => calls'[t].b = tasks[t].storage
          /\ Active(t) /\ tasks'[t].pc # "done" => tasks'[t].storage = tasks[t].storage]_vars

\* A storage call answered by a backend of project 2, built after the backend
\* of project 1 was dropped.
C5_Witness ==
    \E t \in Tasks :
        /\ Active(t)
        /\ calls[t].pc = "done"
        /\ calls[t].res.status = "ok"
        /\ calls[t].b = tasks[t].storage
        /\ discarded # {}
        /\ calls[t].b \notin discarded
        /\ config = 2
        /\ backends[calls[t].b].cfg = 2

\* C6 (as claimed): a storage call made on a backend that setConfig has
\* dropped fails with 'backend reselected' and is not sent to the store.
BackendReselected == "backend reselected"
C6_StaleInstanceFailsCleanly ==
    [][\A t \in Tasks :
          Invoked(t) /\ calls'[t].b \in discarded =>
              /\ calls'[t].pc = "done"
              /\ calls'[t].res = Thrown(BackendReselected)]_vars

\* C25 (as claimed): a handler that asks for the backend once a setConfig
\* has written its configuration, the setConfig being still under way or
\* not, is given a backend built from the configuration that is stored.
C25_StoreAndClearAtomic ==
    [][\A t \in Tasks :
          TaskStarts(t) => backends'[tasks'[t].storage].cfg = config]_vars

(***************************************************************************)
(* Properties of stored notes.                                             *)
(***************************************************************************)
\* The ids that a table holds before and after the step.
Surviving(cfg) == DOMAIN db[cfg] \cap DOMAIN db'[cfg]

\* C11 (as claimed): every stored note has createdAt <= updatedAt.
C11_CreatedNotAfterUpdated ==
    \A cfg \in Configs : \A i \in DOMAIN db[cfg] :
        GetTime(db[cfg][i].created_at) <= GetTime(db[cfg][i].updated_at)

\* C12: no step changes the id or the createdAt of a stored note, and an
\* updateNote, whatever its partial note holds, leaves the set of stored ids
\* as it was.
C12_IdAndCreatedAtImmutable ==
    [][/\ \A cfg \in Configs : \A i \in Surviving(cfg) :
             /\ db'[cfg][i].id = db[cfg][i].id
             /\ db'[cfg][i].id = i
             /\ db'[cfg][i].created_at = db[cfg][i].created_at
       /\ \A c \in Callers : Completes(c, "updateNote") =>
             DOMAIN db'[CfgOf(c)] = DOMAIN db[CfgOf(c)]]_vars

\* An updateNote given another id and another createdAt has succeeded, and
\* the note is stored under its own id with the createdAt of its insert.
C12_Witness ==
    \E c \in Callers :
        /\ calls[c].pc = "done"
        /\ calls[c].op = "updateNote"
        /\ calls[c].res.status = "ok"
        /\ IsSome(calls[c].arg.id)
        /\ Get(calls[c].arg.id) # calls[c].req.id
        /\ IsSome(calls[c].arg.createdAt)
        /\ calls[c].req.id \in DOMAIN db[CfgOf(c)]
        /\ db[CfgOf(c)][calls[c].req.id].id = calls[c].req.id
        /\ GetTime(db[CfgOf(c)][calls[c].req.id].created_at) # Get(calls[c].arg.createdAt)
        /\ calls[c].res.value[1].createdAt # Get(calls[c].arg.createdAt)

\* C13 (as claimed): no step changes the source of a stored note.
C13_SourceImmutable ==
    [][\A cfg \in Configs : \A i \in Surviving(cfg) :
          db'[cfg][i].source = db[cfg][i].source]_vars

(***************************************************************************)
(* Properties of concurrent saves.                                         *)
(***************************************************************************)
DistinctIds(t) == \A i, j \in DOMAIN t : i # j => t[i].id # t[j].id

\* C14: a saveNote that the store executes adds exactly one note, under an id
\* no stored note has, and changes no other note, whatever other calls are in
\* flight; it fails only when the store cannot be reached, and then stores
\* nothing; stored notes always have pairwise distinct ids.
C14_ConcurrentSaves ==
    /\ [](\A cfg \in Configs : DistinctIds(db[cfg]))
    /\ [][\A c \in Callers : Completes(c, "saveNote") =>
             LET old == db[CfgOf(c)]
                 new == db'[CfgOf(c)]
             IN  \/ /\ calls'[c].res.status = "ok"
                    /\ \E i \in DOMAIN new \ DOMAIN old :
                          /\ DOMAIN new = DOMAIN old \cup {i}
                          /\ new[i].id = i
                          /\ calls'[c].res.value[1].id = i
                          /\ new[i].content = calls[c].req.row.content
                          /\ new[i].tags = calls[c].req.row.tags
                          /\ new[i].source = calls[c].req.row.source
                          /\ new[i].embedding = calls[c].req.row.embedding
                    /\ \A j \in DOMAIN old : new[j] = old[j]
                 \/ /\ calls'[c].res = Thrown(SaveFailed(StoreFailure))
                    /\ db' = db]_vars

\* Two saveNote calls, the first executed by the store while the second was
\* in flight, have both succeeded and the table holds their two notes.
C14_Witness ==
    \E c, d \in Callers :
        /\ c # d
        /\ calls[c].pc = "done" /\ calls[c].op = "saveNote" /\ calls[c].res.status = "ok"
        /\ calls[d].pc = "done" /\ calls[d].op = "saveNote" /\ calls[d].res.status = "ok"
        /\ "saveNote" \in calls[c].during
        /\ CfgOf(c) = CfgOf(d)
        /\ calls[c].res.value[1].id # calls[d].res.value[1].id
        /\ DOMAIN db[CfgOf(c)] = {calls[c].res.value[1].id, calls[d].res.value[1].id}

(***************************************************************************)
(* Properties of a capture.                                                *)
(***************************************************************************)
\* C15: a capture starts generateEmbedding and generateTags in one step,
\* calls the backend's saveNote only when both have resolved, with what they
\* resolved to, and when either fails ends with that failure without having
\* called the backend.
C15_GenerateBothThenSave ==
    [][\A t \in Tasks : tasks[t].action = "saveNote" =>
          /\ tasks[t].pc = "start" /\ tasks'[t].pc # "start" =>
                /\ tasks'[t].pc = "ai"
                /\ tasks'[t].emb.st = "pending"
                /\ tasks'[t].tags.st = "pending"
                /\ ~Invoked(t)
          /\ Invoked(t) =>
                /\ tasks[t].pc = "ai"
                /\ tasks[t].emb.st = "ok"
                /\ tasks[t].tags.st = "ok"
                /\ calls'[t].op = "saveNote"
                /\ calls'[t].req.row.embedding = normalizeEmbedding(tasks[t].emb.v)
                /\ calls'[t].req.row.tags = tasks[t].tags.v
          /\ tasks[t].pc = "ai" /\ tasks'[t].pc = "done" =>
                /\ tasks'[t].response = Failure(AiFailure)
                /\ ~Invoked(t)
                /\ db' = db]_vars

\* One capture has called the backend with both results in hand; another
\* has ended with the AI failure, and nothing else has written.
C15_Witness ==
    \E t, u \in Tasks :
        /\ At(t, "saveNote", "await")
        /\ calls[t].pc = "sent"
        /\ calls[t].op = "saveNote"
        /\ tasks[t].emb.st = "ok"
        /\ tasks[t].tags.st = "ok"
        /\ tasks[u].action = "saveNote"
        /\ tasks[u].pc = "done"
        /\ tasks[u].response = Failure(AiFailure)
        /\ nwrites = 1

(***************************************************************************)
(* Properties of the searches.                                             *)
(***************************************************************************)
\* Cosine similarity of e and q is at least 3/10.
NotBelowThreshold(e, q) ==
    /\ Dot(e, q) > 0
    /\ 100 * Dot(e, q) * Dot(e, q) >= 9 * Dot(e, e) * Dot(q, q)

\* Cosine similarity of e1 and q is at least that of e2 and q.
NotLessSimilar(e1, e2, q) ==
    \/ Dot(e1, q) >= 0 /\ Dot(e2, q) <= 0
    \/ /\ Dot(e1, q) > 0 /\ Dot(e2, q) > 0
       /\ Dot(e1, q) * Dot(e1, q) * Dot(e2, e2) >= Dot(e2, q) * Dot(e2, q) * Dot(e1, e1)

Min(a, b) == IF a < b THEN a ELSE b

\* The notes found are min(limit, stored) stored notes, each once, and no
\* stored note left out was created after one of them.
TheMostRecent(t, found, limit) ==
    /\ Len(found) = Min(limit, Cardinality(DOMAIN t))
    /\ \A k \in 1..Len(found) : found[k].id \in DOMAIN t
    /\ \A j, k \in 1..Len(found) : j < k => found[j].id # found[k].id
    /\ \A i \in DOMAIN t \ {found[k].id : k \in 1..Len(found)} :
          \A k \in 1..Len(found) : t[i].created_at <= t[found[k].id].created_at

\* C17 (as claimed): getRecentNotes(n) returns at most n notes, each with a
\* createdAt strictly below that of the note before it, and they are the
\* notes with the greatest createdAt of the table.
C17_RecentStrictlyDescending ==
    [][\A c \in Callers :
          Completes(c, "getRecentNotes") /\ calls'[c].res.status = "ok" =>
              LET found == calls'[c].res.value
                  limit == IF IsSome(calls[c].arg) THEN Get(calls[c].arg) ELSE 10
              IN  /\ Len(found) <= limit
                  /\ TheMostRecent(db[CfgOf(c)], found, limit)
                  /\ \A j, k \in 1..Len(found) : j < k =>
                        found[j].createdAt > found[k].createdAt]_vars

\* C17 (amended): getRecentNotes(n) returns min(n, stored) notes, none with a
\* createdAt above that of the note before it (notes of equal createdAt come
\* in either order), and no stored note left out is newer than one returned.
C17_RecentDescending ==
    [][\A c \in Callers :
          Completes(c, "getRecentNotes") /\ calls'[c].res.status = "ok" =>
              LET found == calls'[c].res.value
                  limit == IF IsSome(calls[c].arg) THEN Get(calls[c].arg) ELSE 10
              IN  /\ Len(found) <= limit
                  /\ TheMostRecent(db[CfgOf(c)], found, limit)
                  /\ \A j, k \in 1..Len(found) : j < k =>
                        found[j].createdAt >= found[k].createdAt]_vars

\* Two notes created in different milliseconds are stored and
\* getRecentNotes(1) has returned the later one alone.
C17_Witness ==
    \E c \in Callers :
        /\ calls[c].pc = "done"
        /\ calls[c].op = "getRecentNotes"
        /\ calls[c].res.status = "ok"
        /\ calls[c].arg = Some(1)
        /\ Len(calls[c].res.value) = 1
        /\ \E i \in DOMAIN db[CfgOf(c)] :
              GetTime(db[CfgOf(c)][i].created_at) < calls[c].res.value[1].createdAt

(***************************************************************************)
(* Properties of tags.                                                     *)
(***************************************************************************)
NoDuplicates(tags) == \A j, k \in 1..Len(tags) : j # k => tags[j] # tags[k]

\* C18 (as claimed): no stored note has the same tag twice.
C18_NoDuplicateTags ==
    \A cfg \in Configs : \A i \in DOMAIN db[cfg] : NoDuplicates(db[cfg][i].tags)

\* The tags of the model in alphabetical order: x before y, whatever the case.
Alphabet == <<"x", "Y">>
AlphabetRank(tag) == CHOOSE k \in 1..Len(Alphabet) : Alphabet[k] = tag

TagsIn(t) == UNION {{t[i].tags[k] : k \in 1..Len(t[i].tags)} : i \in DOMAIN t}

\* C19 (as claimed): getTags returns every tag of a stored note and no other,
\* each once, in ascending alphabetical order.
C19_GetTagsAlphabetical ==
    [][\A c \in Callers :
          Completes(c, "getTags") /\ calls'[c].res.status = "ok" =>
              LET found == calls'[c].res.value
              IN  /\ {found[k] : k \in 1..Len(found)} = TagsIn(db[CfgOf(c)])
                  /\ NoDuplicates(found)
                  /\ \A j, k \in 1..Len(found) : j < k =>
                        AlphabetRank(found[j]) < AlphabetRank(found[k])]_vars

(***************************************************************************)
(* Round trip: one saveNote on a backend and, as soon as it has returned,  *)
(* getNote of the id it returned.  Caller 1 saves, caller 2 reads.         *)
(***************************************************************************)
RoundTripInit ==
    /\ NormOff
    /\ UiOff
    /\ WorkerOff
    /\ backends = <<[cfg |-> 1, client |-> FALSE]>>
    /\ \E n \in {0, 1} :
          /\ db = [cfg \in Configs |-> IF cfg = 1 THEN Seeded(EmptyTable, n) ELSE EmptyTable]
          /\ nextId = [cfg \in Configs |-> IF cfg = 1 THEN n + 1 ELSE 1]
    /\ serverNow = 0
    /\ clientNow = 0
    /\ calls = [c \in Callers |-> IdleCall]
    /\ nwrites = 0

RoundTripSave ==
    /\ calls[1].pc = "idle"
    /\ saveNote(1, 1)

RoundTripRead ==
    /\ calls[1].pc = "done"
    /\ calls[1].res.status = "ok"
    /\ calls[2].pc = "idle"
    /\ InvokeWith(2, 1, "getNote", calls[1].res.value[1].id,
                  getNoteRequest(calls[1].res.value[1].id))

RoundTripNext ==
    \/ initialize(1) /\ UNCHANGED normVars /\ UNCHANGED uiVars /\ UNCHANGED workerVars
    \/ RoundTripSave /\ UNCHANGED normVars /\ UNCHANGED uiVars /\ UNCHANGED workerVars
    \/ RoundTripRead /\ UNCHANGED normVars /\ UNCHANGED uiVars /\ UNCHANGED workerVars
    \/ \E c \in Callers : StoreReplies(c) /\ UNCHANGED normVars /\ UNCHANGED uiVars /\ UNCHANGED workerVars
    \/ \E c \in Callers : StoreFails(c) /\ UNCHANGED normVars /\ UNCHANGED uiVars /\ UNCHANGED workerVars
    \/ ServerTick /\ UNCHANGED normVars /\ UNCHANGED uiVars /\ UNCHANGED workerVars
    \/ ClientTick /\ UNCHANGED normVars /\ UNCHANGED uiVars /\ UNCHANGED workerVars

SpecRoundTrip == RoundTripInit /\ [][RoundTripNext]_vars

\* A JavaScript value that is an array of numbers.
NumberArray(v) == [type |-> "array", value |-> v]

\* C20 (as claimed): getNote of the id that saveNote returned, called as soon
\* as saveNote has returned, returns a note with the content, the tags in
\* their order and the source that were saved, and with the embedding
\* normalize(original embedding).
C20_RoundTrip ==
    /\ calls[1].pc = "done" /\ calls[1].op = "saveNote" /\ calls[1].res.status = "ok"
    /\ calls[2].pc = "done" /\ calls[2].op = "getNote" /\ calls[2].res.status = "ok"
    => /\ Len(calls[2].res.value) = 1
       /\ LET given == calls[1].arg
              got == calls[2].res.value[1]
          IN  /\ got.id = calls[1].res.value[1].id
              /\ got.content = given.content
              /\ got.tags = given.tags
              /\ got.source = given.source
              /\ got.embedding = NumberArray(normalizeEmbedding(given.embedding))

(***************************************************************************)
(* One initialized SupabaseStorage used by several callers at once, on a   *)
(* table that holds the notes of earlier sessions: reads, updates and      *)
(* deletions interleave at the store.                                      *)
(***************************************************************************)
SharedInit ==
    /\ NormOff
    /\ UiOff
    /\ WorkerOff
    /\ backends = <<[cfg |-> 1, client |-> FALSE]>>
    /\ \E n \in 0..MaxNotes :
          /\ db = [cfg \in Configs |-> IF cfg = 1 THEN Seeded(EmptyTable, n) ELSE EmptyTable]
          /\ nextId = [cfg \in Configs |-> IF cfg = 1 THEN n + 1 ELSE 1]
    /\ serverNow = 0
    /\ clientNow = 0
    /\ calls = [c \in Callers |-> IdleCall]
    /\ nwrites = 0

SharedNext ==
    \/ initialize(1) /\ UNCHANGED normVars /\ UNCHANGED uiVars /\ UNCHANGED workerVars
    \/ \E c \in Callers : getNote(c, 1) /\ UNCHANGED normVars /\ UNCHANGED uiVars /\ UNCHANGED workerVars
    \/ \E c \in Callers : getAllNotes(c, 1) /\ UNCHANGED normVars /\ UNCHANGED uiVars /\ UNCHANGED workerVars
    \/ \E c \in Callers : updateNote(c, 1) /\ UNCHANGED normVars /\ UNCHANGED uiVars /\ UNCHANGED workerVars
    \/ \E c \in Callers : deleteNote(c, 1) /\ UNCHANGED normVars /\ UNCHANGED uiVars /\ UNCHANGED workerVars
    \/ \E c \in Callers : clearAll(c, 1) /\ UNCHANGED normVars /\ UNCHANGED uiVars /\ UNCHANGED workerVars
    \/ \E c \in Callers : StoreReplies(c) /\ UNCHANGED normVars /\ UNCHANGED uiVars /\ UNCHANGED workerVars
    \/ \E c \in Callers : StoreFails(c) /\ UNCHANGED normVars /\ UNCHANGED uiVars /\ UNCHANGED workerVars

SpecShared == SharedInit /\ [][SharedNext]_vars

\* No writing call of another caller is in flight.
NoWriteBeside(c) ==
    \A d \in Callers \ {c} : calls[d].pc = "sent" => calls[d].op \notin WriteOps

\* C21: when clearAll succeeds the table holds no note, whatever ids it held;
\* a getAllNotes that the store executes on the table, no write having come
\* between, returns the empty sequence.
C21_ClearAllEmpties ==
    [][\A c \in Callers :
          /\ Completes(c, "clearAll") /\ calls'[c].res.status = "ok" =>
                DOMAIN db'[CfgOf(c)] = {}
          /\ /\ Completes(c, "getAllNotes")
             /\ calls'[c].res.status = "ok"
             /\ DOMAIN db[CfgOf(c)] = {}
             => calls'[c].res.value = <<>>]_vars

\* clearAll has succeeded on a table of MaxNotes notes with no write beside
\* it, and the getAllNotes that followed has returned the empty sequence.
C21_Witness ==
    \E c, d \in Callers :
        /\ c # d
        /\ calls[c].pc = "done" /\ calls[c].op = "clearAll" /\ calls[c].res.status = "ok"
        /\ calls[d].pc = "done" /\ calls[d].op = "getAllNotes" /\ calls[d].res = Ok(<<>>)
        /\ calls[c].during = {}
        /\ nwrites = 1
        /\ nextId[CfgOf(c)] = MaxNotes + 1
        /\ DOMAIN db[CfgOf(c)] = {}

(***************************************************************************)
(* Properties of the worker's responses.                                   *)
(***************************************************************************)
StorageActions ==
    {"saveNote", "searchNotes", "getRecentNotes", "deleteNote", "askQuestion", "getTags",
     "deleteAllNotes"}

\* The handler of task t takes a step.
HandlerStep(t) ==
    /\ Active(t)
    /\ \/ tasks'[t].pc # tasks[t].pc
       \/ tasks'[t].emb.st # tasks[t].emb.st
       \/ tasks'[t].tags.st # tasks[t].tags.st
       \/ Len(tasks'[t].todo) # Len(tasks[t].todo)

\* C22: when the storage call a handler awaits has failed, the handler's next
\* step ends it with an {error} response carrying that error; a handler left
\* while an AI call is awaited ends with the AI's error; and a success
\* response is given only on a storage call that succeeded or on the answer
\* of the AI.
C22_FailuresReachTheCaller ==
    [][\A t \in Tasks : tasks[t].action \in StorageActions /\ HandlerStep(t) =>
          /\ calls[t].pc = "done" /\ calls[t].res.status = "error" =>
                /\ tasks'[t].pc = "done"
                /\ tasks'[t].response = Failure(calls[t].res.error)
          /\ tasks[t].pc \in {"ai", "embed"} /\ tasks'[t].pc = "done" =>
                tasks'[t].response = Failure(AiFailure)
          /\ tasks'[t].pc = "done" /\ tasks'[t].response.status # "error" =>
                \/ calls[t].pc = "done" /\ calls[t].res.status = "ok"
                \/ tasks[t].pc = "answer"]_vars

\* deleteAllNotes has answered with the store's failure and askQuestion with
\* the AI's.
C22_Witness ==
    \E t, u \in Tasks :
        /\ tasks[t].action = "deleteAllNotes"
        /\ tasks[t].pc = "done"
        /\ tasks[t].response = Failure(StoreFailure)
        /\ tasks[u].action = "askQuestion"
        /\ tasks[u].pc = "done"
        /\ tasks[u].response = Failure(AiFailure)

\* C23: in askQuestion, a vector search that returned no note is followed by
\* getRecentNotes(5), whose notes become the context; a vector search that
\* returned notes is followed by no storage call and its notes are the
\* context; the sources of the answer are those of the context.
C23_FallbackToRecent ==
    [][\A t \in Tasks : tasks[t].action = "askQuestion" /\ HandlerStep(t) =>
          /\ /\ tasks[t].pc = "search"
             /\ calls[t].pc = "done"
             /\ calls[t].res.status = "ok"
             => IF Len(calls[t].res.value) = 0
                THEN /\ tasks'[t].pc = "recent"
                     /\ Invoked(t)
                     /\ calls'[t].op = "getRecentNotes"
                     /\ calls'[t].req.limit = 5
                ELSE /\ tasks'[t].pc = "answer"
                     /\ ~Invoked(t)
                     /\ tasks'[t].notes = calls[t].res.value
          /\ /\ tasks[t].pc = "recent"
             /\ calls[t].pc = "done"
             /\ calls[t].res.status = "ok"
             => /\ tasks'[t].pc = "answer"
                /\ ~Invoked(t)
                /\ tasks'[t].notes = calls[t].res.value
          /\ tasks[t].pc = "answer" /\ tasks'[t].response.status = "ok" =>
                tasks'[t].response.value[1].sources = SourcesOf(tasks[t].notes)]_vars

\* One question has its context from the recency listing, the vector search
\* having found nothing among the stored notes; another has it from the
\* vector search.
C23_Witness ==
    \E t, u \in Tasks :
        /\ At(t, "askQuestion", "answer")
        /\ calls[t].op = "getRecentNotes"
        /\ Len(tasks[t].notes) > 0
        /\ At(u, "askQuestion", "answer")
        /\ calls[u].op = "searchByVector"
        /\ Len(tasks[u].notes) > 0

(***************************************************************************)
(* Properties of the message listener.                                     *)
(***************************************************************************)
\* The handler's next step is a write that the bound MaxWrites of the model
\* does not let it send.
WriteIsNext(t) ==
    \/ At(t, "saveNote", "ai") /\ tasks[t].emb.st = "ok" /\ tasks[t].tags.st = "ok"
    \/ At(t, "deleteNote", "start")
    \/ /\ tasks[t].action = "deleteAllNotes"
       /\ Returned(t)
       /\ calls[t].res.status = "ok"
       /\ \/ tasks[t].pc = "list" /\ Len(calls[t].res.value) > 0
          \/ tasks[t].pc = "loop" /\ Len(tasks[t].todo) > 0
OutOfWrites(t) == Active(t) /\ nwrites >= MaxWrites /\ WriteIsNext(t)

Responded(t) == tasks[t].pc = "done" /\ tasks[t].response.status \in {"ok", "error"}

\* How far the handler of t is from its response: the awaits that its code
\* still has before it, and within one await whether the call is in flight.
Stage(t) ==
    LET a == tasks[t].action
        pc == tasks[t].pc
        pending == Cardinality({x \in {"emb", "tags"} : tasks[t][x].st = "pending"})
    IN  CASE pc \in {"idle", "done"} -> 0
          [] a = "saveNote" /\ pc = "start" -> 5
          [] a = "saveNote" /\ pc = "ai" -> 2 + pending
          [] a = "askQuestion" /\ pc = "start" -> 5
          [] a = "askQuestion" /\ pc = "embed" -> 4
          [] a = "askQuestion" /\ pc = "search" -> 3
          [] a = "askQuestion" /\ pc = "recent" -> 2
          [] a = "deleteAllNotes" /\ pc = "start" -> MaxNotes + 3
          [] a = "deleteAllNotes" /\ pc = "list" -> MaxNotes + 2
          [] a = "deleteAllNotes" /\ pc = "loop" -> Len(tasks[t].todo) + 1
          [] pc = "start" -> 2
          [] OTHER -> 1
Rank(t) ==
    3 * Stage(t) + (CASE calls[t].pc = "sent" -> 2 [] calls[t].pc = "done" -> 1 [] OTHER -> 0)

\* C26: a message that is being handled has no response yet; the step that
\* ends its handling gives it one response, a result or an error, which
\* nothing changes until the next message takes the place; an unknown action
\* is answered by an error.  Every message is eventually responded to: a
\* handler under way always has a step to take (its own, or the resolution or
\* failure of the call it awaits) unless the model's bound on writes stops it,
\* and each of its steps brings it nearer to its response, so that under the
\* fairness of SpecWorkerLive, Active(t) ~> Responded(t) \/ OutOfWrites(t).
C26_ExactlyOneResponse ==
    /\ [](\A t \in Tasks : Active(t) => tasks[t].response.status = "none")
    /\ [](\A t \in Tasks : Active(t) /\ ~OutOfWrites(t) => ENABLED TaskProgress(t))
    /\ [][\A t \in Tasks :
             /\ Active(t) /\ ~Active(t)' => Responded(t)'
             /\ Active(t) /\ TaskView(t)' # TaskView(t) => Rank(t)' < Rank(t)
             /\ tasks[t].pc = "done" /\ nmsgs' = nmsgs =>
                    /\ tasks'[t].pc = "done"
                    /\ tasks'[t].action = tasks[t].action
                    /\ tasks'[t].response.status = tasks[t].response.status
                    /\ tasks'[t].response.error = tasks[t].response.error
             /\ tasks[t].pc = "done" => Responded(t)
             /\ tasks'[t].action = "unknown" /\ tasks'[t].pc = "done" =>
                    tasks'[t].response.status = "error"]_vars

\* The three messages have been delivered, among them one for an unknown
\* action and one whose storage call failed, and each has its response.
C26_Witness ==
    /\ nmsgs = MaxMessages
    /\ \A t \in Tasks : Responded(t)
    /\ \E t, u \in Tasks :
          /\ t # u
          /\ tasks[t].action = "unknown"
          /\ tasks[t].response.status = "error"
          /\ tasks[u].action \in {"saveNote", "askQuestion", "deleteAllNotes"}

(***************************************************************************)
(* Properties of deleteAllNotes.                                           *)
(***************************************************************************)
\* The ids of the notes that the getAllNotes of the handler of t returned.
SnapshotIds(t) == {tasks[t].notes[k].id : k \in 1..Len(tasks[t].notes)}
ProjectOf(t) == backends[tasks[t].storage].cfg

\* C27: deleteAllNotes answers success with the length of the list that its
\* getAllNotes returned, and none of those notes is stored then; it sends a
\* deleteNote only for a note of that list, so that the store removes no
\* other note on its account; and when its getAllNotes or one of its
\* deleteNote calls fails it answers with that error at once, sending no
\* further request and leaving the table as it is.
C27_DeleteAllNotes ==
    [][\A t \in Tasks : tasks[t].action = "deleteAllNotes" /\ Active(t) =>
          /\ ~Active(t)' /\ tasks'[t].response.status = "ok" =>
                /\ tasks'[t].response.value = <<Len(tasks[t].notes)>>
                /\ tasks[t].pc = "list" => calls[t].res.value = <<>>
                /\ Len(tasks[t].todo) = 0
                /\ calls[t].res.status = "ok"
                /\ \A i \in SnapshotIds(t) : i \notin DOMAIN db'[ProjectOf(t)]
          /\ Invoked(t) /\ calls'[t].op = "deleteNote" =>
                /\ calls'[t].req.kind = "delete_eq"
                /\ calls'[t].req.id \in SnapshotIds(t)'
                /\ calls'[t].req.id \notin {tasks'[t].todo[k].id : k \in 1..Len(tasks'[t].todo)}
          /\ Completes(t, "deleteNote") =>
                DOMAIN db[ProjectOf(t)] \ DOMAIN db'[ProjectOf(t)] \subseteq {calls[t].req.id}
          /\ Returned(t) /\ calls[t].res.status = "error" /\ HandlerStep(t) =>
                /\ ~Active(t)'
                /\ tasks'[t].response.status = "error"
                /\ tasks'[t].response.error = calls[t].res.error
                /\ db' = db
                /\ nwrites' = nwrites]_vars

\* deleteAllNotes answered {success, deletedCount: 1}: the note of its list
\* is gone, and the note that a saveNote stored after the list was taken is
\* still stored.
C27_Witness ==
    \E t, u \in Tasks :
        /\ t # u
        /\ tasks[t].action = "deleteAllNotes" /\ tasks[t].pc = "done"
        /\ tasks[t].response.status = "ok"
        /\ tasks[t].response.value = <<1>>
        /\ tasks[u].action = "saveNote" /\ tasks[u].pc = "done"
        /\ tasks[u].response.status = "ok"
        /\ DOMAIN db[1] = {2}
        /\ config = 1

(***************************************************************************)
(* Properties of racing calls.                                             *)
(***************************************************************************)
\* Caller c's call is a getNote, updateNote or deleteNote of id i that was sent.
CallOn(c, op, i) ==
    /\ calls[c].op = op
    /\ calls[c].req.kind \in {"select_single", "update", "delete_eq"}
    /\ calls[c].req.id = i

\* C24: whatever calls are in flight beside it, getNote returns the whole
\* note as stored or null (or the store's failure), updateNote succeeds only
\* on a note that is stored when the store executes it and stores no note of
\* its own, and once a deleteNote of an id has succeeded and a getNote or
\* updateNote of that id has completed, the note is not stored.
C24_DeleteRaces ==
    /\ [][\A c \in Callers :
             /\ Completes(c, "getNote") =>
                   LET t == db[CfgOf(c)]
                       i == calls[c].req.id
                   IN  /\ calls'[c].res \in
                             {Thrown(StoreFailure),
                              IF i \in DOMAIN t THEN Ok(<<ToNote(ToJson(t[i]))>>)
                              ELSE Ok(<<>>)}
                       /\ db' = db
             /\ Completes(c, "updateNote") =>
                   /\ DOMAIN db'[CfgOf(c)] = DOMAIN db[CfgOf(c)]
                   /\ IF calls'[c].res.status = "ok"
                      THEN /\ calls[c].req.id \in DOMAIN db[CfgOf(c)]
                           /\ Len(calls'[c].res.value) = 1
                      ELSE db' = db]_vars
    /\ [](\A c, d \in Callers : \A i \in Ids :
             /\ c # d
             /\ calls[d].pc = "done" /\ CallOn(d, "deleteNote", i)
             /\ calls[d].res.status = "ok"
             /\ calls[c].pc = "done"
             /\ CallOn(c, "getNote", i) \/ CallOn(c, "updateNote", i)
             /\ CfgOf(c) = CfgOf(d)
             => i \notin DOMAIN db[CfgOf(c)])

\* An updateNote of a stored note was executed while the deleteNote of the
\* same id was in flight and succeeded; the deleteNote has succeeded too and
\* the note is gone.
C24_Witness ==
    \E c, d \in Callers : \E i \in Ids :
        /\ c # d
        /\ calls[c].pc = "done" /\ CallOn(c, "updateNote", i)
        /\ calls[c].res.status = "ok"
        /\ "deleteNote" \in calls[c].during
        /\ calls[d].pc = "done" /\ CallOn(d, "deleteNote", i)
        /\ calls[d].res.status = "ok"
        /\ nwrites = 2
        /\ i \notin DOMAIN db[CfgOf(c)]
        /\ DOMAIN db[CfgOf(c)] # {}

(***************************************************************************)
(* The search page and the popup.  Both send a message to the background   *)
(* worker and await the response; the user may act again before it comes.  *)
(* The worker is seen from the page: a response is a result, an {error}    *)
(* object, or the rejection of sendMessage, in any order of arrival.       *)
(***************************************************************************)
Queries == {"a", "b"}
Question == "question"
Thinking == "Thinking..."
Sorry == "Sorry, I encountered an error. Please try again."
Undefined == "undefined"

\* document.getElementById(id) within the container: the first element in
\* document order whose id attribute is id (0: none).
getElementById(elements, id) ==
    LET hits == {k \in 1..Len(elements) : elements[k].id = id}
    IN  IF hits = {} THEN 0 ELSE CHOOSE k \in hits : \A j \in hits : k <= j

\* document.getElementById(id)?.remove()
RemoveById(elements, id) ==
    LET k == getElementById(elements, id)
    IN  IF k = 0 THEN elements
        ELSE [j \in 1..(Len(elements) - 1) |-> IF j < k THEN elements[j] ELSE elements[j + 1]]

\* messageId = `msg-${Date.now()}`
MessageId(elements, now) == now

\* appendChatMessage(role, content): a new last element of the container.
\* `of` tells which sendChatMessage call appended the element.
appendChatMessage(elements, role, content, of, now) ==
    Append(elements, [id |-> MessageId(elements, now), role |-> role,
                      content |-> content, of |-> of])

\* sendChatMessage up to its await: the user's message and the placeholder
\* are appended, each with its own reading of the clock, which may have
\* advanced in between (d), and askQuestion is sent.
sendChatMessage ==
    /\ Len(asks) < MaxChats
    /\ \E d \in {0, 1} :
          /\ uiNow + d <= MaxUiMillis
          /\ LET k == Len(asks) + 1
                 withUser == appendChatMessage(chat, "user", Question, k, uiNow)
                 withLoading == appendChatMessage(withUser, "ai", Thinking, k, uiNow + d)
             IN  /\ chat' = withLoading
                 /\ asks' = Append(asks, [pc |-> "sent",
                                          loadingId |-> withLoading[Len(withLoading)].id])
          /\ uiNow' = uiNow + d
    /\ UNCHANGED <<shown, searches>>

\* sendChatMessage after its await: the placeholder is looked up by its id
\* and removed, and the answer appended; an {error} response has no answer
\* field; a rejection goes through the catch block.
askQuestionArrives(k) ==
    /\ asks[k].pc = "sent"
    /\ \E content \in {Answer, Undefined, Sorry} :
          chat' = appendChatMessage(RemoveById(chat, asks[k].loadingId), "ai", content, k, uiNow)
    /\ asks' = [asks EXCEPT ![k].pc = "done"]
    /\ UNCHANGED <<uiNow, shown, searches>>

UiTick ==
    /\ uiNow < MaxUiMillis
    /\ uiNow' = uiNow + 1
    /\ UNCHANGED <<chat, asks, shown, searches>>

\* performSearch up to its await: the container shows the spinner and
\* searchNotes is sent.
performSearch(p) ==
    /\ Len(searches[p]) < MaxSearches
    /\ \E query \in Queries :
          searches' = [searches EXCEPT ![p] = Append(@, [pc |-> "sent", query |-> query])]
    /\ shown' = [shown EXCEPT ![p] = [kind |-> "loading", query |-> ""]]
    /\ UNCHANGED <<uiNow, chat, asks>>

\* performSearch after its await: the notes of the response are displayed
\* (displaySearchResults, displayNotes), or 'Search failed' when sendMessage
\* rejected or the response has no notes.
searchArrives(p, k) ==
    /\ searches[p][k].pc = "sent"
    /\ \/ shown' = [shown EXCEPT ![p] = [kind |-> "results", query |-> searches[p][k].query]]
       \/ shown' = [shown EXCEPT ![p] = [kind |-> "failed", query |-> ""]]
    /\ searches' = [searches EXCEPT ![p][k].pc = "done"]
    /\ UNCHANGED <<uiNow, chat, asks>>

UiInit ==
    /\ NormOff
    /\ UiOff
    /\ WorkerOff
    /\ StoreStart
    /\ backends = <<>>

UiNext ==
    \/ sendChatMessage /\ UNCHANGED <<normVars, storeVars, workerVars>>
    \/ \E k \in 1..Len(asks) :
          askQuestionArrives(k) /\ UNCHANGED <<normVars, storeVars, workerVars>>
    \/ UiTick /\ UNCHANGED <<normVars, storeVars, workerVars>>
    \/ \E p \in Pages : performSearch(p) /\ UNCHANGED <<normVars, storeVars, workerVars>>
    \/ \E p \in Pages : \E k \in 1..Len(searches[p]) :
          searchArrives(p, k) /\ UNCHANGED <<normVars, storeVars, workerVars>>

SpecUi == UiInit /\ [][UiNext]_vars

\* C28 (as claimed): once the response or failure for a chat message has
\* arrived, the placeholder appended for that message is no longer in the
\* chat and the user's own message still is.
C28_PlaceholderRemoved ==
    \A k \in 1..Len(asks) :
        asks[k].pc = "done" =>
            /\ ~\E j \in 1..Len(chat) : chat[j].of = k /\ chat[j].content = Thinking
            /\ \E j \in 1..Len(chat) : chat[j].of = k /\ chat[j].role = "user"

\* C29 (as claimed): when every response to the searches of a page has
\* arrived, the results that the page displays are those of the query issued
\* last.
C29_LatestQueryShown ==
    \A p \in Pages :
        /\ Len(searches[p]) > 0
        /\ \A k \in 1..Len(searches[p]) : searches[p][k].pc = "done"
        /\ shown[p].kind = "results"
        => shown[p].query = searches[p][Len(searches[p])].query

(***************************************************************************)
(* The normalizer on its own: one vector, normalized once and again.       *)
(***************************************************************************)
NormInit ==
    /\ normPc = "input"
    /\ normIn \in Vectors
    /\ normOut = <<>>
    /\ normTwice = <<>>
    /\ StoreStart
    /\ WorkerOff
    /\ UiOff
    /\ backends = <<>>

NormApply ==
    /\ normPc = "input"
    /\ normOut' = normalizeEmbedding(normIn)
    /\ normPc' = "once"
    /\ UNCHANGED <<normIn, normTwice>>
    /\ UNCHANGED workerVars
    /\ UNCHANGED storeVars
    /\ UNCHANGED uiVars

NormReapply ==
    /\ normPc = "once"
    /\ normTwice' = normalizeEmbedding(normOut)
    /\ normPc' = "twice"
    /\ UNCHANGED <<normIn, normOut>>
    /\ UNCHANGED workerVars
    /\ UNCHANGED storeVars
    /\ UNCHANGED uiVars

NormNext == NormApply \/ NormReapply

SpecNorm == NormInit /\ [][NormNext]_vars

\* C2: normalize(v) has length D and is v itself when len(v) = D, the first
\* D components of v in order when len(v) > D, and v followed by D - len(v)
\* zeros when len(v) < D.
NormReference(v) ==
    IF Len(v) = D THEN v
    ELSE IF Len(v) > D THEN [i \in 1..D |-> v[i]]
    ELSE v \o [i \in 1..(D - Len(v)) |-> 0]

C2_NormalizeByCase ==
    normPc # "input" =>
        /\ Len(normOut) = D
        /\ normOut = NormReference(normIn)

C2_Witness ==
    /\ normPc = "once"
    /\ Len(normIn) > D
    /\ normIn[D + 1] # 0
    /\ normIn[1] # normIn[D + 1]

\* C3: normalizing a normalized vector changes nothing.
C3_NormalizeIdempotent ==
    normPc = "twice" => normTwice = normOut

C3_Witness ==
    /\ normPc = "twice"
    /\ Len(normIn) < D
    /\ Len(normIn) > 0

====
